---- MODULE Spec2Model ----
(***************************************************************************)
(* The AST calculator of src/src/lib.rs: the recursive-descent parser      *)
(* (parse_number, parse_parenthesized, parse_factor, parse_term,           *)
(* parse_expression) and the tree-walking evaluator (evaluate).            *)
(*                                                                         *)
(* A string is a sequence of one-character strings.  An f64 is modelled by *)
(* the exact rational <<n, d>> in lowest terms with d > 0: for the short   *)
(* literals and shallow trees of the bounds below no operation rounds to   *)
(* zero, overflows or yields NaN, so "== 0.0" is decided as in the code.   *)
(* The inputs contain no 'e', 'E' or letters, so the exponent and the      *)
(* nan/inf/infinity branches of nom's double never apply and are left out. *)
(***************************************************************************)
EXTENDS Integers, Sequences, FiniteSets, TLC

VARIABLES input, toks, gap, pc, pres, ast, eres

vars == <<input, toks, gap, pc, pres, ast, eres>>

\* ------------------------------------------------------------------ bounds

\* Longest input string of Spec.
MaxLen == 4

\* Most tokens of a sentence of SpecForm (a sentence has an odd number of
\* tokens: 7 is a o b o c o d, or one pair of parentheses and two operators).
MaxTok == 7

\* Widest run of blanks between two tokens of a sentence of SpecForm.
MaxGap == 1

\* Most binary operators of a tree of SpecEval.
MaxOps == 3

\* ----------------------------------------------------------------- strings

Alphabet == {"0", "1", "+", "-", "*", "/", "(", ")", " ", "."}

Digits == {"0", "1", "2", "3", "4", "5", "6", "7", "8", "9"}

WhiteSpace == {" ", "\t", "\n", "\r"}

Drop(s, n) == SubSeq(s, n + 1, Len(s))

Take(s, n) == SubSeq(s, 1, n)

\* remaining.trim().is_empty()
IsBlank(s) == \A i \in 1..Len(s) : s[i] \in WhiteSpace

IsSuffix(r, s) == Len(r) <= Len(s) /\ r = Drop(s, Len(s) - Len(r))

\* ---------------------------------------------------------------- rationals

RECURSIVE GCD(_, _)
GCD(a, b) == IF b = 0 THEN a ELSE GCD(b, a % b)

Abs(n) == IF n < 0 THEN -n ELSE n

Norm(n, d) ==
  LET g == GCD(Abs(n), Abs(d))
      s == IF d < 0 THEN -1 ELSE 1
  IN <<(s * n) \div g, (s * d) \div g>>

Zero == <<0, 1>>

RAdd(a, b) == Norm(a[1] * b[2] + b[1] * a[2], a[2] * b[2])

RSub(a, b) == Norm(a[1] * b[2] - b[1] * a[2], a[2] * b[2])

RMul(a, b) == Norm(a[1] * b[1], a[2] * b[2])

RDiv(a, b) == Norm(a[1] * b[2], a[2] * b[1])

\* ---------------------------------------------------------------- the tree

Float(v) == [op |-> "Float", val |-> v]

Bin(o, l, r) == [op |-> o, l |-> l, r |-> r]

NoExpr == [op |-> "None"]

\* IResult<&str, Expr>: Ok((rest, expr)), or Err carrying the input at which
\* the failing parser was applied.
Ok(rest, e) == [ok |-> TRUE, rest |-> rest, expr |-> e]

Err(at) == [ok |-> FALSE, rest |-> at, expr |-> NoExpr]

\* ------------------------------------------------------------ nom parsers

RECURSIVE SkipWs(_)
SkipWs(s) == IF s # <<>> /\ s[1] \in WhiteSpace THEN SkipWs(Tail(s)) ELSE s

\* multispace0: zero or more of space, tab, CR, LF; never fails.
multispace0(s) == Ok(SkipWs(s), NoExpr)

\* char(c): the next character is c.
char(c, s) == IF s # <<>> /\ s[1] = c THEN Ok(Tail(s), NoExpr) ELSE Err(s)

RECURSIVE DigitRun(_)
DigitRun(s) == IF s # <<>> /\ s[1] \in Digits THEN 1 + DigitRun(Tail(s)) ELSE 0

DigitVal(c) ==
  CASE c = "0" -> 0 [] c = "1" -> 1 [] c = "2" -> 2 [] c = "3" -> 3
    [] c = "4" -> 4 [] c = "5" -> 5 [] c = "6" -> 6 [] c = "7" -> 7
    [] c = "8" -> 8 [] c = "9" -> 9

RECURSIVE DecVal(_)
DecVal(s) == IF s = <<>> THEN 0 ELSE 10 * DecVal(Take(s, Len(s) - 1)) + DigitVal(s[Len(s)])

RECURSIVE Pow10(_)
Pow10(n) == IF n = 0 THEN 1 ELSE 10 * Pow10(n - 1)

\* double: [+-]? (digit+ ('.' digit*)? | '.' digit+), then the text's value.
\* On failure the error carries the input double was applied to.
double(s) ==
  LET sg   == IF s # <<>> /\ s[1] \in {"+", "-"} THEN 1 ELSE 0
      t    == Drop(s, sg)
      il   == DigitRun(t)
      dot  == il < Len(t) /\ t[il + 1] = "."
      fl   == IF dot THEN DigitRun(Drop(t, il + 1)) ELSE 0
      used == IF il > 0 THEN (IF dot THEN il + 1 + fl ELSE il)
              ELSE (IF dot /\ fl > 0 THEN 1 + fl ELSE 0)
      ds   == IF used > il THEN Take(t, il) \o SubSeq(t, il + 2, il + 1 + fl)
              ELSE Take(t, il)
      sc   == IF used > il THEN fl ELSE 0
      neg  == sg = 1 /\ s[1] = "-"
  IN IF used = 0 THEN Err(s)
     ELSE Ok(Drop(t, used),
             Norm((IF neg THEN -1 ELSE 1) * DecVal(ds), Pow10(sc)))

\* ---------------------------------------------------------------- the parser

\* Each function is split where it calls a parser of the recursion: the part
\* after the call takes the call's result as a parameter.

RECURSIVE parse_expression(_)
RECURSIVE parse_term(_)
RECURSIVE parse_factor(_)

parse_number(s) ==
  LET d == double(s)
  IN IF d.ok THEN Ok(d.rest, Float(d.expr)) ELSE d

\* let (input, _) = char(')')(input)?; Ok((input, expr))
paren_close(e) ==
  IF ~e.ok THEN e
  ELSE IF ~char(")", e.rest).ok THEN char(")", e.rest)
  ELSE Ok(char(")", e.rest).rest, e.expr)

\* parse_parenthesized with the inner expression parsed as a term only.
parse_parenthesized_term(s) ==
  IF ~char("(", s).ok THEN char("(", s)
  ELSE paren_close(parse_term(char("(", s).rest))

parse_parenthesized(s) ==
  IF ~char("(", s).ok THEN char("(", s)
  ELSE paren_close(parse_expression(char("(", s).rest))

\* if let Ok(..) = parse_parenthesized(input) { .. } else { parse_number(input) }
factor_alt(p, i) == IF p.ok THEN p ELSE parse_number(i)

\* parse_factor with the number attempted where the parenthesized attempt
\* stopped, not where it started.
parse_factor_chained(s) ==
  factor_alt(parse_parenthesized(multispace0(s).rest),
             parse_parenthesized(multispace0(s).rest).rest)

parse_factor(s) ==
  factor_alt(parse_parenthesized(multispace0(s).rest), multispace0(s).rest)

RECURSIVE term_loop(_, _)

\* let (new_input, right) = parse_factor(new_input)?; left = ..; remaining = ..
term_next(o, left, f) ==
  IF ~f.ok THEN f ELSE term_loop(f.rest, Bin(o, left, f.expr))

term_loop(remaining, left) ==
  LET i == multispace0(remaining).rest
  IN IF char("*", i).ok THEN term_next("Mul", left, parse_factor(char("*", i).rest))
     ELSE IF char("/", i).ok THEN term_next("Div", left, parse_factor(char("/", i).rest))
     ELSE Ok(remaining, left)

term_first(f) == IF ~f.ok THEN f ELSE term_loop(f.rest, f.expr)

parse_term(s) == term_first(parse_factor(s))

RECURSIVE expr_loop_factor(_, _)

expr_next_factor(o, left, t) ==
  IF ~t.ok THEN t ELSE expr_loop_factor(t.rest, Bin(o, left, t.expr))

\* expr_loop with each right operand parsed as a factor, not as a term.
expr_loop_factor(remaining, left) ==
  LET i == multispace0(remaining).rest
  IN IF char("+", i).ok THEN expr_next_factor("Add", left, parse_factor(char("+", i).rest))
     ELSE IF char("-", i).ok THEN expr_next_factor("Sub", left, parse_factor(char("-", i).rest))
     ELSE Ok(remaining, left)

expr_next_right(o, left, t) ==
  IF ~t.ok THEN t ELSE Ok(t.rest, Bin(o, left, t.expr))

\* expr_loop folding to the right: the right operand is the rest of the chain.
expr_loop_right(remaining, left) ==
  LET i == multispace0(remaining).rest
  IN IF char("+", i).ok THEN expr_next_right("Add", left, parse_expression(char("+", i).rest))
     ELSE IF char("-", i).ok THEN expr_next_right("Sub", left, parse_expression(char("-", i).rest))
     ELSE Ok(remaining, left)

RECURSIVE expr_loop_backtrack(_, _)

expr_next_backtrack(o, remaining, left, t) ==
  IF ~t.ok THEN Ok(remaining, left)
  ELSE expr_loop_backtrack(t.rest, Bin(o, left, t.expr))

\* expr_loop giving up on an operator whose operand fails: the left operand
\* is returned and the operator stays in the remaining input.
expr_loop_backtrack(remaining, left) ==
  LET i == multispace0(remaining).rest
  IN IF char("+", i).ok
     THEN expr_next_backtrack("Add", remaining, left, parse_term(char("+", i).rest))
     ELSE IF char("-", i).ok
     THEN expr_next_backtrack("Sub", remaining, left, parse_term(char("-", i).rest))
     ELSE Ok(remaining, left)

RECURSIVE expr_loop_signed(_, _)

expr_next_signed(o, left, t) ==
  IF ~t.ok THEN t ELSE expr_loop_signed(t.rest, Bin(o, left, t.expr))

\* expr_loop leaving a "-" that a digit follows to the number after it: the
\* loop ends there instead of subtracting.
expr_loop_signed(remaining, left) ==
  LET i == multispace0(remaining).rest
  IN IF char("+", i).ok THEN expr_next_signed("Add", left, parse_term(char("+", i).rest))
     ELSE IF char("-", i).ok /\ DigitRun(Tail(i)) = 0
     THEN expr_next_signed("Sub", left, parse_term(char("-", i).rest))
     ELSE Ok(remaining, left)

RECURSIVE expr_loop(_, _)

\* let (new_input, right) = parse_term(new_input)?; left = ..; remaining = ..
expr_next(o, left, t) ==
  IF ~t.ok THEN t ELSE expr_loop(t.rest, Bin(o, left, t.expr))

expr_loop(remaining, left) ==
  LET i == multispace0(remaining).rest
  IN IF char("+", i).ok THEN expr_next("Add", left, parse_term(char("+", i).rest))
     ELSE IF char("-", i).ok THEN expr_next("Sub", left, parse_term(char("-", i).rest))
     ELSE Ok(remaining, left)

expr_first(t) == IF ~t.ok THEN t ELSE expr_loop(t.rest, t.expr)

\* parse_expression failing when input other than blanks is left over.
strict(r) == IF r.ok /\ ~IsBlank(r.rest) THEN Err(r.rest) ELSE r

parse_expression_strict(s) == strict(expr_first(parse_term(s)))

parse_expression(s) == expr_first(parse_term(s))

\* -------------------------------------------------------------- the evaluator

\* Result<f64, EvaluationError> together with the nodes visited, in order; a
\* node is named by its path from the root (0: left child, 1: right child).
Val(v, tr) == [err |-> FALSE, val |-> v, trace |-> tr]

DivisionByZero(tr) == [err |-> TRUE, val |-> Zero, trace |-> tr]

Arith(o, a, b) ==
  CASE o = "Add" -> RAdd(a, b)
    [] o = "Sub" -> RSub(a, b)
    [] o = "Mul" -> RMul(a, b)

\* evaluate(left)? op evaluate(right)?
eval_bin(o, self, L, R) ==
  IF L.err THEN DivisionByZero(<<self>> \o L.trace)
  ELSE IF R.err THEN DivisionByZero(<<self>> \o L.trace \o R.trace)
  ELSE Val(Arith(o, L.val, R.val), <<self>> \o L.trace \o R.trace)

\* eval_div with a zero denominator coerced to the value zero.
eval_div_coerce(self, L, R) ==
  IF R.err THEN DivisionByZero(<<self>> \o R.trace)
  ELSE IF R.val = Zero THEN Val(Zero, <<self>> \o R.trace)
  ELSE IF L.err THEN DivisionByZero(<<self>> \o R.trace \o L.trace)
  ELSE Val(RDiv(L.val, R.val), <<self>> \o R.trace \o L.trace)

\* eval_div with the operands evaluated left to right, as for the other nodes.
eval_div_left_first(self, L, R) ==
  IF L.err THEN DivisionByZero(<<self>> \o L.trace)
  ELSE IF R.err THEN DivisionByZero(<<self>> \o L.trace \o R.trace)
  ELSE IF R.val = Zero THEN DivisionByZero(<<self>> \o L.trace \o R.trace)
  ELSE Val(RDiv(L.val, R.val), <<self>> \o L.trace \o R.trace)

\* let denominator = evaluate(right)?; if denominator == 0.0 { Err } else
\* { Ok(evaluate(left)? / denominator) }
eval_div(self, L, R) ==
  IF R.err THEN DivisionByZero(<<self>> \o R.trace)
  ELSE IF R.val = Zero THEN DivisionByZero(<<self>> \o R.trace)
  ELSE IF L.err THEN DivisionByZero(<<self>> \o R.trace \o L.trace)
  ELSE Val(RDiv(L.val, R.val), <<self>> \o R.trace \o L.trace)

RECURSIVE eval_at(_, _)
eval_at(e, self) ==
  IF e.op = "Float" THEN Val(e.val, <<self>>)
  ELSE IF e.op = "Div"
  THEN eval_div(self, eval_at(e.l, Append(self, 0)), eval_at(e.r, Append(self, 1)))
  ELSE eval_bin(e.op, self, eval_at(e.l, Append(self, 0)), eval_at(e.r, Append(self, 1)))

evaluate(e) == eval_at(e, <<>>)

NoEval == [err |-> FALSE, val |-> Zero, trace |-> <<>>]

\* ------------------------------------------------------------------ inputs

RECURSIVE Strings(_)
Strings(n) ==
  IF n = 0 THEN {<<>>}
  ELSE LET S == Strings(n - 1)
       IN S \cup {Append(s, c) : s \in {x \in S : Len(x) = n - 1}, c \in Alphabet}

\* The sentences of the grammar of lib.rs (lines 190-195), as token sequences:
\*   expression = term (("+" | "-") term)*
\*   term       = factor (("*" | "/") factor)*
\*   factor     = number | "(" expression ")"
Lits == {<<"2">>, <<"-", "3">>, <<".", "5">>}

AddOps == {<<"+">>, <<"-">>}

MulOps == {<<"*">>, <<"/">>}

LP == <<"(">>

RP == <<")">>

RECURSIVE ExprS(_)
RECURSIVE TermS(_)
RECURSIVE FacS(_)

\* The factors, terms and expressions of exactly n tokens.
FacS(n) ==
  IF n = 1 THEN {<<l>> : l \in Lits}
  ELSE IF n >= 3 THEN {<<LP>> \o e \o <<RP>> : e \in ExprS(n - 2)}
  ELSE {}

TermS(n) ==
  FacS(n) \cup
  UNION {{t \o <<o>> \o f : t \in TermS(k), o \in MulOps, f \in FacS(n - 1 - k)} :
         k \in 1..(n - 2)}

ExprS(n) ==
  TermS(n) \cup
  UNION {{e \o <<o>> \o t : e \in ExprS(k), o \in AddOps, t \in TermS(n - 1 - k)} :
         k \in 1..(n - 2)}

Sentences == UNION {ExprS(n) : n \in 1..MaxTok}

\* The blanks put before a token: gap[1] before an operator (and after the
\* last token), gap[2] before a number or "(", gap[3] before ")".
Gaps == [1..3 -> 0..MaxGap]

Blanks(n) == [i \in 1..n |-> " "]

GapBefore(t, g) ==
  IF t \in AddOps \cup MulOps THEN g[1] ELSE IF t = RP THEN g[3] ELSE g[2]

RECURSIVE Render(_, _)
Render(tk, g) ==
  IF tk = <<>> THEN Blanks(g[1])
  ELSE Blanks(GapBefore(tk[1], g)) \o tk[1] \o Render(Tail(tk), g)

\* The trees of exactly n operators over the leaves 0 and 1.
LeafVals == {Zero, <<1, 1>>}

Ops == {"Add", "Sub", "Mul", "Div"}

RECURSIVE TreesN(_)
TreesN(n) ==
  IF n = 0 THEN {Float(v) : v \in LeafVals}
  ELSE UNION {{Bin(o, l, r) : o \in Ops, l \in TreesN(k), r \in TreesN(n - 1 - k)} :
              k \in 0..(n - 1)}

\* ----------------------------------------------------------------- actions

\* A caller (the REPL of main.rs, a test) parses the input.
Parse ==
  /\ pc = "read"
  /\ pres' = parse_expression(input)
  /\ ast' = pres'.expr
  /\ pc' = IF pres'.ok THEN "parsed" ELSE "done"
  /\ UNCHANGED <<input, toks, gap, eres>>

\* The caller evaluates the tree it holds.
Evaluate ==
  /\ pc = "parsed"
  /\ eres' = evaluate(ast)
  /\ pc' = "done"
  /\ UNCHANGED <<input, toks, gap, pres, ast>>

NoGap == [i \in 1..3 |-> 0]

\* Every string over Alphabet of at most MaxLen characters.
Init ==
  /\ input \in Strings(MaxLen)
  /\ toks = <<>>
  /\ gap = NoGap
  /\ pc = "read"
  /\ pres = Err(<<>>)
  /\ ast = NoExpr
  /\ eres = NoEval

Next == Parse \/ Evaluate

Spec == Init /\ [][Next]_vars

\* Every sentence of at most MaxTok tokens, under every spacing.
InitForm ==
  /\ toks \in Sentences
  /\ gap \in Gaps
  /\ input = Render(toks, gap)
  /\ pc = "read"
  /\ pres = Err(<<>>)
  /\ ast = NoExpr
  /\ eres = NoEval

SpecForm == InitForm /\ [][Next]_vars

\* evaluate applied to a tree the caller built (the doc test of evaluate):
\* every tree of at most MaxOps operators.
InitEval ==
  /\ \/ ast \in TreesN(0)
     \/ \E n \in 1..MaxOps : \E k \in 0..(n - 1) :
          \E o \in Ops, l \in TreesN(k), r \in TreesN(n - 1 - k) : ast = Bin(o, l, r)
  /\ input = <<>>
  /\ toks = <<>>
  /\ gap = NoGap
  /\ pc = "parsed"
  /\ pres = Err(<<>>)
  /\ eres = NoEval

NextEval == Evaluate

SpecEval == InitEval /\ [][NextEval]_vars

\* The strings of Spec and the sentences of SpecForm together.
SpecAll == (Init \/ InitForm) /\ [][Next]_vars

\* ------------------------------------------------------------------ claims

\* The leaf of a number token, and the node name of an operator token.
LitTree(t) == Float(double(t).expr)

OpName(t) ==
  CASE t = <<"+">> -> "Add" [] t = <<"-">> -> "Sub"
    [] t = <<"*">> -> "Mul" [] t = <<"/">> -> "Div"

Parsed == pc # "read"

FullyParsed == Parsed /\ pres.ok /\ IsBlank(pres.rest)

\* a o1 b o2 c with o1 of the + - level and o2 of the * / level.
PrecedenceForm ==
  /\ Len(toks) = 5
  /\ \A i \in {1, 3, 5} : toks[i] \in Lits
  /\ toks[2] \in AddOps
  /\ toks[4] \in MulOps

\* C1: an input a + b * c (also with - for + and / for *), under any spacing,
\* parses with the whole input consumed to Add(a, Mul(b, c)): the operator of
\* the * / level binds its two operands first.
C1_Precedence ==
  (Parsed /\ PrecedenceForm) =>
    /\ pres.ok
    /\ IsBlank(pres.rest)
    /\ pres.expr = Bin(OpName(toks[2]), LitTree(toks[1]),
                       Bin(OpName(toks[4]), LitTree(toks[3]), LitTree(toks[5])))

C1_Witness ==
  /\ pc = "done"
  /\ PrecedenceForm
  /\ toks[2] = <<"-">>
  /\ toks[4] = <<"/">>
  /\ gap = [i \in 1..3 |-> MaxGap]
  /\ pres.expr.op = "Sub"
  /\ pres.expr.r.op = "Div"

\* A chain of numbers joined by operators of one level, three operands or more.
ChainForm(level) ==
  /\ Len(toks) >= 5
  /\ \A i \in 1..Len(toks) :
       IF i % 2 = 1 THEN toks[i] \in Lits ELSE toks[i] \in level

RECURSIVE LeftFold(_)
LeftFold(tk) ==
  IF Len(tk) = 1 THEN LitTree(tk[1])
  ELSE Bin(OpName(tk[Len(tk) - 1]), LeftFold(Take(tk, Len(tk) - 2)), LitTree(tk[Len(tk)]))

\* The value of the chain computed operator by operator from the left.
RECURSIVE LeftValue(_)
LeftValue(tk) ==
  LET n == Len(tk)
      a == LeftValue(Take(tk, n - 2))
      b == double(tk[n]).expr
  IN IF n = 1 THEN double(tk[1]).expr
     ELSE CASE tk[n - 1] = <<"+">> -> RAdd(a, b)
            [] tk[n - 1] = <<"-">> -> RSub(a, b)
            [] tk[n - 1] = <<"*">> -> RMul(a, b)
            [] tk[n - 1] = <<"/">> -> RDiv(a, b)

\* C2: a chain of operands joined by operators of one level (+ - or * /) is
\* folded to the left, a op1 b op2 c to op2(op1(a, b), c), whatever the mix
\* of the two operators, and it evaluates to ((a op1 b) op2 c).
C2_LeftAssociative ==
  (Parsed /\ (ChainForm(AddOps) \/ ChainForm(MulOps))) =>
    /\ pres.ok
    /\ pres.expr = LeftFold(toks)
    /\ pc = "done" => (~eres.err /\ eres.val = LeftValue(toks))

C2_Witness ==
  /\ pc = "done"
  /\ ChainForm(AddOps)
  /\ Len(toks) = 7
  /\ toks[2] = <<"-">>
  /\ toks[4] = <<"+">>
  /\ toks[6] = <<"-">>
  /\ pres.expr.op = "Sub"
  /\ pres.expr.l.op = "Add"
  /\ pres.expr.l.l.op = "Sub"
  /\ ~eres.err

\* ( a o1 b ) o2 c and c o2 ( a o1 b ), with o1 and o2 any operators.
ParenLeftForm ==
  /\ Len(toks) = 7
  /\ toks[1] = LP /\ toks[5] = RP
  /\ \A i \in {2, 4, 7} : toks[i] \in Lits
  /\ \A i \in {3, 6} : toks[i] \in AddOps \cup MulOps

ParenRightForm ==
  /\ Len(toks) = 7
  /\ toks[3] = LP /\ toks[7] = RP
  /\ \A i \in {1, 4, 6} : toks[i] \in Lits
  /\ \A i \in {2, 5} : toks[i] \in AddOps \cup MulOps

ParenOnlyForm == Len(toks) = 3 /\ toks[1] = LP /\ toks[3] = RP

\* C3: an input (a + b) * c, written with no blank before the ")", parses to
\* Mul(Add(a, b), c); a parenthesized expression is one operand of the
\* operator beside it whatever the operators are, and ( a ) is the leaf a.
C3_Parenthesized ==
  (Parsed /\ gap[3] = 0) =>
    /\ ParenLeftForm =>
         /\ pres.ok
         /\ pres.expr = Bin(OpName(toks[6]),
                            Bin(OpName(toks[3]), LitTree(toks[2]), LitTree(toks[4])),
                            LitTree(toks[7]))
    /\ ParenRightForm =>
         /\ pres.ok
         /\ pres.expr = Bin(OpName(toks[2]), LitTree(toks[1]),
                            Bin(OpName(toks[5]), LitTree(toks[4]), LitTree(toks[6])))
    /\ ParenOnlyForm => (pres.ok /\ pres.expr = LitTree(toks[2]))

C3_Witness ==
  /\ pc = "done"
  /\ ParenLeftForm
  /\ toks[3] = <<"+">>
  /\ toks[6] = <<"*">>
  /\ gap = [i \in 1..3 |-> IF i = 3 THEN 0 ELSE MaxGap]
  /\ pres.expr.op = "Mul"
  /\ pres.expr.l.op = "Add"

\* C7: every sentence of the grammar, with any blanks between its tokens,
\* parses with nothing but blanks remaining.
C7_FullConsumption == Parsed => (pres.ok /\ IsBlank(pres.rest))

\* A Div node somewhere in e whose right subtree evaluates to exactly zero.
RECURSIVE HasZeroDiv(_)
HasZeroDiv(e) ==
  /\ e.op # "Float"
  /\ \/ e.op = "Div" /\ ~evaluate(e.r).err /\ evaluate(e.r).val = Zero
     \/ HasZeroDiv(e.l)
     \/ HasZeroDiv(e.r)

Evaluated == pc = "done" /\ ast # NoExpr

\* C4: evaluate returns DivisionByZero exactly when the tree holds a Div node
\* whose right subtree evaluates to zero, at whatever depth and under
\* whatever ancestors; no number is returned in its place.
C4_DivisionByZero == Evaluated => (eres.err <=> HasZeroDiv(ast))

C4_Witness ==
  /\ Evaluated
  /\ eres.err
  /\ ast.op = "Add"
  /\ ast.l.op = "Float"
  /\ ast.r.op = "Div"
  /\ ast.r.l.op = "Float"
  /\ ast.r.r.op = "Sub"

RECURSIVE NodeAt(_, _)
NodeAt(e, p) ==
  IF p = <<>> THEN e
  ELSE NodeAt(IF p[1] = 0 THEN e.l ELSE e.r, Tail(p))

IsPrefix(p, q) == Len(p) <= Len(q) /\ p = Take(q, Len(p))

\* The places of the visit trace that lie in the subtree at path p.
VisitsUnder(tr, p) == {j \in 1..Len(tr) : IsPrefix(p, tr[j])}

\* C5: at a Div node the right subtree is evaluated first; with a zero
\* denominator the node fails and no node of its left subtree is ever
\* visited; with a nonzero one the left subtree is evaluated after the right
\* one and the quotient is returned.
C5_DivideOrder ==
  Evaluated =>
    \A i \in 1..Len(eres.trace) :
      LET p == eres.trace[i]
          n == NodeAt(ast, p)
          R == evaluate(n.r)
          lv == VisitsUnder(eres.trace, Append(p, 0))
          rv == VisitsUnder(eres.trace, Append(p, 1))
      IN n.op = "Div" =>
           /\ i < Len(eres.trace)
           /\ eres.trace[i + 1] = Append(p, 1)
           /\ (R.err \/ R.val = Zero) => (lv = {} /\ evaluate(n).err)
           /\ (~R.err /\ R.val # Zero) =>
                /\ lv # {}
                /\ \A j \in lv, k \in rv : k < j
                /\ ~evaluate(n.l).err =>
                     evaluate(n) = Val(RDiv(evaluate(n.l).val, R.val),
                                       evaluate(n).trace)

C5_Witness ==
  /\ Evaluated
  /\ ast.op = "Div"
  /\ ast.l.op = "Div"
  /\ ast.r.op = "Sub"
  /\ eres.err
  /\ eres.trace = <<<<>>, <<1>>, <<1, 0>>, <<1, 1>>>>

\* The kinds of the tokens of s: a "-" at operand position directly followed
\* by a digit (or by "." and a digit) is the sign of a number; any other
\* + - * / is an operator.
NumLen(s, signed) ==
  LET sg  == IF signed /\ s # <<>> /\ s[1] = "-" THEN 1 ELSE 0
      t   == Drop(s, sg)
      il  == DigitRun(t)
      dot == il < Len(t) /\ t[il + 1] = "."
      fl  == IF dot THEN DigitRun(Drop(t, il + 1)) ELSE 0
  IN IF il > 0 THEN sg + il + (IF dot THEN 1 + fl ELSE 0)
     ELSE IF dot /\ fl > 0 THEN sg + 1 + fl
     ELSE 0

RECURSIVE Lex(_, _)
Lex(s, operand) ==
  IF s = <<>> THEN <<>>
  ELSE IF s[1] \in WhiteSpace THEN Lex(Tail(s), operand)
  ELSE IF NumLen(s, operand) > 0 THEN <<"num">> \o Lex(Drop(s, NumLen(s, operand)), FALSE)
  ELSE IF s[1] \in {"+", "-", "*", "/"} THEN <<"op">> \o Lex(Tail(s), TRUE)
  ELSE IF s[1] = "(" THEN <<"(">> \o Lex(Tail(s), TRUE)
  ELSE IF s[1] = ")" THEN <<")">> \o Lex(Tail(s), FALSE)
  ELSE <<"other">> \o Lex(Tail(s), FALSE)

\* The count of "(" less the count of ")" among the first n kinds.
RECURSIVE Depth(_, _)
Depth(k, n) ==
  IF n = 0 THEN 0
  ELSE Depth(k, n - 1) + (IF k[n] = "(" THEN 1 ELSE IF k[n] = ")" THEN -1 ELSE 0)

Malformed(s) ==
  LET k == Lex(s, TRUE)
      n == Len(k)
  IN \/ n = 0                                                \* empty, blank
     \/ k[1] = "op"                                          \* starts with an operator
     \/ k[n] = "op"                                          \* ends with an operator
     \/ \E i \in 1..(n - 1) : k[i] = "op" /\ k[i + 1] = "op" \* two operators
     \/ Depth(k, n) > 0                                      \* unclosed (
     \/ \E i \in 1..n : Depth(k, i) < 0                      \* unmatched )
     \/ \E i \in 1..(n - 1) : k[i] = "(" /\ k[i + 1] = ")"   \* ()

\* C6: a malformed input (empty, blank, starting or ending with an operator,
\* two operators in a row, an unclosed "(", an unmatched ")", "()") is never
\* parsed with only blanks remaining.
C6_Rejection == (Parsed /\ Malformed(input)) => ~(pres.ok /\ IsBlank(pres.rest))

\* C8 as stated: whenever a prefix of the input is a complete expression the
\* parse succeeds, its remaining input being a suffix of the input.
C8_PrefixAlwaysSucceeds ==
  (/\ Parsed
   /\ \E k \in 0..Len(input) :
        /\ parse_expression(Take(input, k)).ok
        /\ parse_expression(Take(input, k)).rest = <<>>)
  => (pres.ok /\ IsSuffix(pres.rest, input))

\* The input from character k + 1 on neither continues a number ending at k
\* nor starts, after blanks, with an operator.
EndsAt(s, k) ==
  LET t == Drop(s, k)
      h == SkipWs(t)
  IN /\ t # <<>>
     /\ t[1] \notin Digits \cup {"."}
     /\ h = <<>> \/ h[1] \notin {"+", "-", "*", "/"}

\* C8, amended: when a prefix of the input is a complete expression and what
\* follows it neither continues its last number nor starts, after blanks,
\* with an operator, the parse succeeds with the tree of that prefix and
\* what follows as remaining input; and whenever the parse succeeds, its
\* remaining input is a suffix of the input and its tree is the tree of the
\* part consumed.
C8_PrefixSuccess ==
  Parsed =>
    /\ \A k \in 0..Len(input) :
         LET r == parse_expression(Take(input, k))
         IN (r.ok /\ r.rest = <<>> /\ EndsAt(input, k)) =>
              pres = Ok(Drop(input, k), r.expr)
    /\ pres.ok =>
         /\ IsSuffix(pres.rest, input)
         /\ parse_expression(Take(input, Len(input) - Len(pres.rest)))
              = Ok(<<>>, pres.expr)

C8_Witness ==
  /\ pc = "done"
  /\ input = <<"1", "*", "0", ")">>
  /\ pres.ok
  /\ pres.rest = <<")">>
  /\ pres.expr.op = "Mul"

\* C9: once an operator that follows a complete operand has been consumed, a
\* failure to parse the operand after it is the failure of the whole parse,
\* with the operand's own error: the left operand is not returned with the
\* operator left in the remaining input.
C9_OperandErrorPropagates ==
  Parsed =>
    \A k \in 1..Len(input) :
      LET l == parse_expression(Take(input, k - 1))
          q == Drop(input, k)
      IN (l.ok /\ IsBlank(l.rest)) =>
           /\ (input[k] \in {"+", "-"} /\ ~parse_term(q).ok) => pres = parse_term(q)
           /\ (input[k] \in {"*", "/"} /\ ~parse_factor(q).ok) => pres = parse_factor(q)

C9_Witness ==
  /\ pc = "done"
  /\ input = <<"1", " ", "*", " ">>
  /\ ~pres.ok
  /\ pres.rest = <<>>

\* C10: parse_factor skips blanks, then takes a parenthesized expression if
\* one parses there and otherwise a number at that same place; a factor that
\* starts with "(" and is malformed is an error and never a number, and an
\* error carries the input from the factor's place on.
C10_FactorFallback ==
  Parsed =>
    LET i == SkipWs(input)
        f == parse_factor(input)
        e == parse_expression(Tail(i))
        d == double(i)
    IN /\ ~f.ok => f.rest = i
       /\ (i # <<>> /\ i[1] = "(") =>
            f = IF e.ok /\ e.rest # <<>> /\ e.rest[1] = ")"
                THEN Ok(Tail(e.rest), e.expr) ELSE Err(i)
       /\ (i = <<>> \/ i[1] # "(") =>
            f = IF d.ok THEN Ok(d.rest, Float(d.expr)) ELSE Err(i)
       /\ ~pres.ok =>
            /\ IsSuffix(pres.rest, input)
            /\ pres.rest = SkipWs(pres.rest)
            /\ parse_factor(pres.rest) = pres

C10_Witness ==
  /\ pc = "done"
  /\ input = <<" ", "(", "1", " ">>
  /\ ~pres.ok
  /\ pres.rest = <<"(", "1", " ">>


\* The node n is e or lies on the chain of left children below e.
RECURSIVE OnLeftSpine(_, _)
OnLeftSpine(e, n) ==
  \/ e = n
  \/ e.op \in Ops /\ OnLeftSpine(e.l, n)

\* x - y, with x and y numbers.
MinusForm ==
  /\ Len(toks) = 3
  /\ toks[1] \in Lits
  /\ toks[2] = <<"-">>
  /\ toks[3] \in Lits

\* C11: a "-" at operand position is the sign of a number exactly when the
\* number's text (a digit, or "." and a digit) follows it directly: the
\* factor is then one Float leaf holding the negated value, and otherwise
\* (a blank, "(", anything else, or nothing follows) the factor and the
\* whole parse are a syntax error.  A "-" that follows a complete operand,
\* with or without blanks around it, is consumed as subtraction: the operand
\* after it is parsed as a term, its failure is the failure of the parse,
\* and the tree holds Sub(left, right); so x -y and x-y are Sub(x, y) and
\* x - -y is Sub(x, Float(-y)).
C11_SignFusion ==
  Parsed =>
    LET i == SkipWs(input)
        f == parse_factor(input)
        u == parse_number(Tail(i))
    IN /\ (i # <<>> /\ i[1] = "-") =>
            IF NumLen(Tail(i), FALSE) > 0
            THEN f = Ok(u.rest, Float(RSub(Zero, u.expr.val)))
            ELSE f = Err(i) /\ pres = Err(i)
       /\ \A k \in 1..Len(input) :
            LET l == parse_expression(Take(input, k - 1))
                t == parse_term(Drop(input, k))
            IN (input[k] = "-" /\ l.ok /\ IsBlank(l.rest)) =>
                 IF ~t.ok THEN pres = t
                 ELSE /\ pres.ok => OnLeftSpine(pres.expr, Bin("Sub", l.expr, t.expr))
                      /\ ~pres.ok => IsSuffix(pres.rest, t.rest)
       /\ MinusForm =>
            /\ pres.ok
            /\ pres.expr = Bin("Sub", LitTree(toks[1]), LitTree(toks[3]))

C11_Witness ==
  /\ pc = "done"
  /\ toks = <<<<"2">>, <<"-">>, <<"-", "3">>>>
  /\ input = <<" ", "2", " ", "-", " ", "-", "3", " ">>
  /\ pres.expr = Bin("Sub", Float(<<2, 1>>), Float(<<-3, 1>>))

====
